---- MODULE Spec2Model ----
(***************************************************************************)
(* Pizza validator: src/src/validation.ts (PizzaSchema, validatePizza).    *)
(*                                                                         *)
(* JavaScript values are records with a type tag; a JavaScript string      *)
(* value is a sequence of one-character strings, so that toLowerCase is    *)
(* computed character by character.  The errors string returned by         *)
(* validatePizza is kept as the sequence of the pieces it is concatenated  *)
(* from (path segments, ".", ": ", a message, "; "), in order.             *)
(*                                                                         *)
(* The schema is built from zod combinators; each combinator used at       *)
(* lines 77-105 is an operator here.  zod's own default wording for a      *)
(* type violation is the library's, not the repository's: it is rendered   *)
(* as "Invalid input: expected <type>, received <type>".  Numbers are      *)
(* finite integers or NaN.                                                 *)
(*                                                                         *)
(* Command line: src/src/cli.ts (main), one step per statement that can    *)
(* end the run.  Standard output and standard error are sequences of       *)
(* lines, a line the sequence of its pieces; the exits are the codes the   *)
(* process ended with, in order.  The check mark and the cross of the two  *)
(* verdict lines are written U+2713 and U+2717.                            *)
(***************************************************************************)
EXTENDS Integers, Sequences, FiniteSets, TLC

VARIABLES input, result, prev, pc,
          argv, fs, parsed, content, thrown, stdout, stderr, exits

cliVars == <<argv, fs, parsed, content, thrown, stdout, stderr, exits>>

vars == <<input, result, prev, pc, argv, fs, parsed, content, thrown, stdout, stderr, exits>>

\* Longest toppings array among the inputs.
MaxToppings == 2

\* Most arguments on a command line.
MaxArgs == 2

(***************************************************************************)
(* JavaScript values                                                       *)
(***************************************************************************)
JsVal(tag) ==
    [t |-> tag, n |-> 0, nan |-> FALSE, s |-> <<>>, b |-> FALSE, a |-> <<>>, o |-> <<>>]

JsUndefined == JsVal("undefined")
JsNull == JsVal("null")
JsNaN == [JsVal("number") EXCEPT !.nan = TRUE]
JsNumber(n) == [JsVal("number") EXCEPT !.n = n]
JsString(s) == [JsVal("string") EXCEPT !.s = s]
JsBoolean(b) == [JsVal("boolean") EXCEPT !.b = b]
JsArray(a) == [JsVal("array") EXCEPT !.a = a]
JsObject(o) == [JsVal("object") EXCEPT !.o = o]

\* obj[key]: the property's value, undefined when the object has no such key.
Get(obj, key) ==
    IF \E i \in DOMAIN obj.o : obj.o[i].k = key
    THEN obj.o[CHOOSE i \in DOMAIN obj.o : obj.o[i].k = key].v
    ELSE JsUndefined

Keys(obj) == {obj.o[i].k : i \in DOMAIN obj.o}

(***************************************************************************)
(* String.prototype.toLowerCase on the letters A-Z                         *)
(***************************************************************************)
UpperLetters ==
    <<"A","B","C","D","E","F","G","H","I","J","K","L","M",
      "N","O","P","Q","R","S","T","U","V","W","X","Y","Z">>

LowerLetters ==
    <<"a","b","c","d","e","f","g","h","i","j","k","l","m",
      "n","o","p","q","r","s","t","u","v","w","x","y","z">>

LowerChar(c) ==
    IF \E i \in DOMAIN UpperLetters : UpperLetters[i] = c
    THEN LowerLetters[CHOOSE i \in DOMAIN UpperLetters : UpperLetters[i] = c]
    ELSE c

toLowerCase(s) == [i \in 1..Len(s) |-> LowerChar(s[i])]

(***************************************************************************)
(* The schema (validation.ts 67-105)                                       *)
(***************************************************************************)
INVALID_TOPPINGS ==
    << <<"s","p","i","n","a","c","h">>,
       <<"m","u","s","h","r","o","o","m">>,
       <<"c","h","i","c","k","e","n">>,
       <<"t","u","r","k","e","y">> >>

\* The values of z.enum(['stuffed', 'normal']).
CrustValues == { <<"s","t","u","f","f","e","d">>, <<"n","o","r","m","a","l">> }

SizeMessage == "pizza size must be a positive number"

CrustMessage == "crust must be either \"stuffed\" or \"normal\""

\* `the following toppings are invalid: ${INVALID_TOPPINGS.join(', ')}.`
ToppingsMessage ==
    "the following toppings are invalid: spinach, mushroom, chicken, turkey."

\* zod's name for the type of a value in its default message.
ParsedType(v) == IF v.t = "number" /\ v.nan THEN "NaN" ELSE v.t

InvalidTypeMessage(expected, v) ==
    "Invalid input: expected " \o expected \o ", received " \o ParsedType(v)

Issue(path, message) == [path |-> path, message |-> message]

\* A slip: the message given to z.number() as well, so that it covers the
\* type violations too.
SizeIssues_OneMessage(v) ==
    IF v.t # "number" \/ v.nan \/ v.n <= 0
    THEN << Issue(<<"size">>, SizeMessage) >>
    ELSE <<>>

\* A slip: .nonnegative() in place of .positive().
SizeIssues_Nonnegative(v) ==
    IF v.t # "number" \/ v.nan
    THEN << Issue(<<"size">>, InvalidTypeMessage("number", v)) >>
    ELSE IF v.n < 0
         THEN << Issue(<<"size">>, SizeMessage) >>
         ELSE <<>>

\* size: z.number().positive(SizeMessage)
SizeIssues(v) ==
    IF v.t # "number" \/ v.nan
    THEN << Issue(<<"size">>, InvalidTypeMessage("number", v)) >>
    ELSE IF v.n <= 0
         THEN << Issue(<<"size">>, SizeMessage) >>
         ELSE <<>>

\* A slip: the crust compared after lower-casing.
CrustIssues_IgnoreCase(v) ==
    IF v.t = "string" /\ toLowerCase(v.s) \in CrustValues
    THEN <<>>
    ELSE << Issue(<<"crust">>, CrustMessage) >>

\* crust: z.enum(['stuffed', 'normal'], { message: CrustMessage })
CrustIssues(v) ==
    IF v.t = "string" /\ v.s \in CrustValues
    THEN <<>>
    ELSE << Issue(<<"crust">>, CrustMessage) >>

\* isDeepDish: z.boolean().optional().default(false)
IsDeepDishIssues(v) ==
    IF v.t \in {"undefined", "boolean"}
    THEN <<>>
    ELSE << Issue(<<"isDeepDish">>, InvalidTypeMessage("boolean", v)) >>

\* A slip: .optional() without .default(false).
IsDeepDishValue_NoDefault(v) == v

IsDeepDishValue(v) == IF v.t = "undefined" THEN JsBoolean(FALSE) ELSE v

\* z.array(z.string()): one issue per element that is not a string, at its index.
RECURSIVE ElementIssues(_, _)
ElementIssues(a, i) ==
    IF i > Len(a)
    THEN <<>>
    ELSE (IF a[i].t = "string"
          THEN <<>>
          ELSE << Issue(<<"toppings", ToString(i - 1)>>,
                        InvalidTypeMessage("string", a[i])) >>)
         \o ElementIssues(a, i + 1)

\* A slip: the topping compared without lower-casing.
ToppingsRefine_CaseSensitive(v) ==
    IF v.t = "undefined"
    THEN TRUE
    ELSE ~ \E i \in DOMAIN v.a :
             \E j \in DOMAIN INVALID_TOPPINGS :
                INVALID_TOPPINGS[j] = v.a[i].s

\* Whether sequence p is a prefix of sequence s.
IsPrefix(p, s) == Len(p) <= Len(s) /\ SubSeq(s, 1, Len(p)) = p

\* A slip: a topping that begins with a forbidden name is refused as well.
ToppingsRefine_StartsWith(v) ==
    IF v.t = "undefined"
    THEN TRUE
    ELSE ~ \E i \in DOMAIN v.a :
             \E j \in DOMAIN INVALID_TOPPINGS :
                IsPrefix(INVALID_TOPPINGS[j], toLowerCase(v.a[i].s))

\* The refinement's predicate (validation.ts 91-100).
ToppingsRefine(v) ==
    IF v.t = "undefined"
    THEN TRUE
    ELSE ~ \E i \in DOMAIN v.a :
             \E j \in DOMAIN INVALID_TOPPINGS :
                INVALID_TOPPINGS[j] = toLowerCase(v.a[i].s)

\* A slip: the refinement runs on the strings of an array that has elements
\* of another type as well, and its issue follows theirs.
ToppingsIssues_RefineAnyway(v) ==
    IF v.t = "undefined"
    THEN <<>>
    ELSE IF v.t # "array"
         THEN << Issue(<<"toppings">>, InvalidTypeMessage("array", v)) >>
         ELSE ElementIssues(v.a, 1)
              \o (IF ToppingsRefine(v)
                  THEN <<>>
                  ELSE << Issue(<<"toppings">>, ToppingsMessage) >>)

\* toppings: z.array(z.string()).optional().refine(...): the refinement runs
\* only on a value the array schema accepted.
ToppingsIssues(v) ==
    IF v.t = "undefined"
    THEN <<>>
    ELSE IF v.t # "array"
         THEN << Issue(<<"toppings">>, InvalidTypeMessage("array", v)) >>
         ELSE IF ElementIssues(v.a, 1) # <<>>
              THEN ElementIssues(v.a, 1)
              ELSE IF ToppingsRefine(v)
                   THEN <<>>
                   ELSE << Issue(<<"toppings">>, ToppingsMessage) >>

\* A slip: the parse stops at the first field that fails.
ObjectIssues_ShortCircuit(in) ==
    IF SizeIssues(Get(in, "size")) # <<>> THEN SizeIssues(Get(in, "size"))
    ELSE IF CrustIssues(Get(in, "crust")) # <<>> THEN CrustIssues(Get(in, "crust"))
    ELSE IF IsDeepDishIssues(Get(in, "isDeepDish")) # <<>>
         THEN IsDeepDishIssues(Get(in, "isDeepDish"))
    ELSE ToppingsIssues(Get(in, "toppings"))

\* z.object({...}): the fields are parsed in declaration order and the issues
\* of all of them are collected.
ObjectIssues(in) ==
    SizeIssues(Get(in, "size"))
    \o CrustIssues(Get(in, "crust"))
    \o IsDeepDishIssues(Get(in, "isDeepDish"))
    \o ToppingsIssues(Get(in, "toppings"))

\* A slip: toppings that were not given come out as null (.nullable()-style
\* normalisation).
ObjectData_NullToppings(in) ==
    JsObject(
        << [k |-> "size", v |-> Get(in, "size")],
           [k |-> "crust", v |-> Get(in, "crust")],
           [k |-> "isDeepDish", v |-> IsDeepDishValue(Get(in, "isDeepDish"))],
           [k |-> "toppings",
            v |-> IF Get(in, "toppings").t = "undefined"
                  THEN JsNull
                  ELSE Get(in, "toppings")] >>)

\* The parsed object: the schema's keys only, toppings only when given.
ObjectData(in) ==
    JsObject(
        << [k |-> "size", v |-> Get(in, "size")],
           [k |-> "crust", v |-> Get(in, "crust")],
           [k |-> "isDeepDish", v |-> IsDeepDishValue(Get(in, "isDeepDish"))] >>
        \o (IF Get(in, "toppings").t = "undefined"
            THEN <<>>
            ELSE << [k |-> "toppings", v |-> Get(in, "toppings")] >>))

\* PizzaSchema.safeParse(input)
safeParse(in) ==
    IF in.t # "object"
    THEN [success |-> FALSE,
          issues |-> << Issue(<<>>, InvalidTypeMessage("object", in)) >>]
    ELSE IF ObjectIssues(in) = <<>>
         THEN [success |-> TRUE, data |-> ObjectData(in)]
         ELSE [success |-> FALSE, issues |-> ObjectIssues(in)]

(***************************************************************************)
(* validatePizza (validation.ts 145-169)                                   *)
(***************************************************************************)
\* pieces.join(sep), as the sequence of the pieces and separators.
RECURSIVE Join(_, _)
Join(pieces, sep) ==
    IF Len(pieces) = 0 THEN <<>>
    ELSE IF Len(pieces) = 1 THEN pieces[1]
    ELSE pieces[1] \o <<sep>> \o Join(Tail(pieces), sep)

\* A slip: the path is left out of the message.
ErrorMessage_NoPath(err) == <<err.message>>

\* `${path}${err.message}` with path = err.path.join('.') + ': ' or ''.
ErrorMessage(err) ==
    (IF Len(err.path) > 0
     THEN Join([i \in DOMAIN err.path |-> <<err.path[i]>>], ".") \o <<": ">>
     ELSE <<>>)
    \o <<err.message>>

\* A slip: the result of the earlier version (validation.ts 31-54), which
\* is no discriminated union: on success it carries an errors field too.
validatePizza_NoUnion(in) ==
    LET r == safeParse(in)
    IN IF r.success
       THEN [isPizza |-> TRUE, pizza |-> r.data, errors |-> <<>>]
       ELSE [isPizza |-> FALSE,
             errors |-> Join([i \in DOMAIN r.issues |-> ErrorMessage(r.issues[i])], "; ")]

validatePizza(in) ==
    LET r == safeParse(in)
    IN IF r.success
       THEN [isPizza |-> TRUE, pizza |-> r.data]
       ELSE [isPizza |-> FALSE,
             errors |-> Join([i \in DOMAIN r.issues |-> ErrorMessage(r.issues[i])], "; ")]

(***************************************************************************)
(* Inputs                                                                  *)
(***************************************************************************)
Str_stuffed == <<"s","t","u","f","f","e","d">>
Str_normal == <<"n","o","r","m","a","l">>
Str_Normal == <<"N","o","r","m","a","l">>
Str_thin == <<"t","h","i","n">>
Str_12 == <<"1","2">>
Str_Bacon == <<"B","a","c","o","n">>
Str_SPINACH == <<"S","P","I","N","A","C","H">>
Str_mushrooms == <<"m","u","s","h","r","o","o","m","s">>
Str_turkey == <<"t","u","r","k","e","y">>

SizeInputs ==
    {JsUndefined, JsNaN, JsString(Str_12), JsNumber(-5), JsNumber(0), JsNumber(12)}

CrustInputs ==
    {JsUndefined, JsNumber(12), JsString(Str_stuffed), JsString(Str_normal),
     JsString(Str_Normal), JsString(Str_thin)}

IsDeepDishInputs ==
    {JsUndefined, JsNull, JsString(Str_normal), JsBoolean(TRUE), JsBoolean(FALSE)}

ToppingElements ==
    {JsNumber(123), JsString(Str_Bacon), JsString(Str_SPINACH),
     JsString(Str_mushrooms), JsString(Str_turkey)}

ToppingArrays == UNION {[1..n -> ToppingElements] : n \in 0..MaxToppings}

ToppingsInputs ==
    {JsUndefined, JsNull, JsString(Str_SPINACH)} \cup {JsArray(a) : a \in ToppingArrays}

ExtraInputs == {JsUndefined, JsString(Str_thin)}

\* The orders in which an input object's keys were inserted.
KeyOrders ==
    { <<"size", "crust", "isDeepDish", "toppings", "extra">>,
      <<"extra", "toppings", "isDeepDish", "crust", "size">> }

\* The object with the given keys, in the given order, less the undefined ones.
RECURSIVE Properties(_, _)
Properties(order, f) ==
    IF order = <<>>
    THEN <<>>
    ELSE (IF f[Head(order)].t = "undefined"
          THEN <<>>
          ELSE << [k |-> Head(order), v |-> f[Head(order)]] >>)
         \o Properties(Tail(order), f)

ObjectInputs ==
    { JsObject(Properties(order,
                          [size |-> sz, crust |-> cr, isDeepDish |-> dd,
                           toppings |-> tp, extra |-> ex])) :
        order \in KeyOrders, sz \in SizeInputs, cr \in CrustInputs,
        dd \in IsDeepDishInputs, tp \in ToppingsInputs, ex \in ExtraInputs }

NonObjectInputs ==
    {JsUndefined, JsNull, JsNumber(12), JsNaN, JsString(Str_thin), JsBoolean(TRUE),
     JsArray(<<JsString(Str_Bacon)>>)}

Inputs == ObjectInputs \cup NonObjectInputs

NoResult == [none |-> TRUE]

(***************************************************************************)
(* Calls                                                                   *)
(***************************************************************************)
NoArgs == [ok |-> FALSE, help |-> FALSE, positionals |-> <<>>]

\* The library is called without the command line: nothing of it is in use.
NoCli ==
    /\ argv = <<>>
    /\ fs = <<>>
    /\ parsed = NoArgs
    /\ content = <<>>
    /\ thrown = <<>>
    /\ stdout = <<>>
    /\ stderr = <<>>
    /\ exits = <<>>

Init ==
    /\ input \in Inputs
    /\ result = NoResult
    /\ prev = NoResult
    /\ pc = "start"
    /\ NoCli

\* A caller passes the input to validatePizza.
Validate ==
    /\ pc = "start"
    /\ result' = validatePizza(input)
    /\ pc' = "validated"
    /\ UNCHANGED <<input, prev>>
    /\ UNCHANGED cliVars

\* A caller passes the pizza of a successful result back to validatePizza.
Revalidate ==
    /\ pc = "validated"
    /\ result.isPizza
    /\ input' = result.pizza
    /\ prev' = result
    /\ result' = validatePizza(result.pizza)
    /\ pc' = "revalidated"
    /\ UNCHANGED cliVars

Next == Validate \/ Revalidate

Spec == Init /\ [][Next]_vars

(***************************************************************************)
(* The command line (cli.ts)                                               *)
(***************************************************************************)
HelpOptions == {"--help", "-h"}

\* The arguments that begin with "-"; "--verbose" is no option of the program.
DashArgs == HelpOptions \cup {"--verbose"}

Paths == {"pizza.json", "other.json"}

ArgLists == UNION {[1..n -> DashArgs \cup Paths] : n \in 0..MaxArgs}

StartsWithDash(a) == a \in DashArgs

\* util.parseArgs with the option help (boolean, short h), positionals allowed
\* and strict left at its default: an unknown option makes it throw.
parseArgs(args) ==
    IF \E i \in DOMAIN args : StartsWithDash(args[i]) /\ args[i] \notin HelpOptions
    THEN NoArgs
    ELSE [ok |-> TRUE,
          help |-> \E i \in DOMAIN args : args[i] \in HelpOptions,
          positionals |-> SelectSeq(args, LAMBDA a : ~StartsWithDash(a))]

\* What Node writes for the TypeError parseArgs throws, which nothing catches.
UncaughtLines ==
    << <<"Uncaught TypeError [ERR_PARSE_ARGS_UNKNOWN_OPTION]: ", "Unknown option">> >>

\* The condition of the help branch (cli.ts 40).
WantsHelp(p) == p.help = TRUE \/ Len(p.positionals) = 0

UsageLines ==
    << <<"usage: pizza-validator <json-file>">>,
       <<"validates a JSON file to check if it contains a valid pizza.">>,
       <<"\noptions:">>,
       <<"  -h, --help    show this help message">> >>

\* const filePath = args.positionals[0]
FilePath(p) == p.positionals[1]

\* What can be at a path: nothing, a file that may not be read, a file whose
\* text is no JSON, a file with a JSON document.
FileMissing == [kind |-> "ENOENT", doc |-> JsNull]
FileDenied == [kind |-> "EACCES", doc |-> JsNull]
FileBadJson == [kind |-> "badjson", doc |-> JsNull]
JsonFile(doc) == [kind |-> "json", doc |-> doc]

\* The example documents of the README and of the tests.
Documents ==
    { JsObject(<< [k |-> "size", v |-> JsNumber(14)],
                  [k |-> "crust", v |-> JsString(Str_stuffed)],
                  [k |-> "isDeepDish", v |-> JsBoolean(TRUE)],
                  [k |-> "toppings", v |-> JsArray(<<JsString(Str_Bacon), JsString(Str_mushrooms)>>)] >>),
      JsObject(<< [k |-> "crust", v |-> JsString(Str_normal)],
                  [k |-> "size", v |-> JsNumber(12)] >>),
      JsObject(<< [k |-> "size", v |-> JsNumber(12)],
                  [k |-> "crust", v |-> JsString(Str_normal)],
                  [k |-> "toppings", v |-> JsArray(<<JsString(Str_SPINACH), JsString(Str_turkey)>>)] >>),
      JsObject(<< [k |-> "size", v |-> JsNumber(0)],
                  [k |-> "crust", v |-> JsString(Str_thin)],
                  [k |-> "toppings", v |-> JsArray(<<JsNumber(123)>>)] >>),
      JsString(Str_thin),
      JsNull }

FileStates == {FileMissing, FileDenied, FileBadJson} \cup {JsonFile(d) : d \in Documents}

Error(name, code, message) ==
    [isError |-> TRUE, name |-> name, code |-> code, message |-> message]

\* A thrown value that is no Error; String(value) is its text.
NonError(text) == [isError |-> FALSE, name |-> "", code |-> "", message |-> text]

\* readFileSync(filePath, 'utf-8'): the error it throws, if any.
ReadError(f, path) ==
    IF f.kind = "ENOENT"
    THEN << Error("Error", "ENOENT", "ENOENT: no such file or directory, open '" \o path \o "'") >>
    ELSE IF f.kind = "EACCES"
         THEN << Error("Error", "EACCES", "EACCES: permission denied, open '" \o path \o "'") >>
         ELSE <<>>

\* JSON.parse(fileContent): the error it throws, if any.
JsonParseError(f) ==
    IF f.kind = "badjson"
    THEN << Error("SyntaxError", "", "Unexpected end of JSON input") >>
    ELSE <<>>

RECURSIVE Concat(_)
Concat(chars) == IF chars = <<>> THEN "" ELSE Head(chars) \o Concat(Tail(chars))

RECURSIVE JoinText(_, _)
JoinText(texts, sep) ==
    IF Len(texts) = 0 THEN ""
    ELSE IF Len(texts) = 1 THEN texts[1]
    ELSE texts[1] \o sep \o JoinText(Tail(texts), sep)

\* JSON.stringify(value, null, 2), below the indentation indent.
RECURSIVE stringify(_, _)
stringify(v, indent) ==
    CASE v.t = "number" -> (IF v.nan THEN "null" ELSE ToString(v.n))
      [] v.t = "boolean" -> (IF v.b THEN "true" ELSE "false")
      [] v.t = "string" -> "\"" \o Concat(v.s) \o "\""
      [] v.t = "array" ->
            (IF v.a = <<>>
             THEN "[]"
             ELSE "[\n"
                  \o JoinText([i \in DOMAIN v.a |->
                                 indent \o "  " \o stringify(v.a[i], indent \o "  ")], ",\n")
                  \o "\n" \o indent \o "]")
      [] v.t = "object" ->
            (IF v.o = <<>>
             THEN "{}"
             ELSE "{\n"
                  \o JoinText([i \in DOMAIN v.o |->
                                 indent \o "  \"" \o v.o[i].k \o "\": "
                                 \o stringify(v.o[i].v, indent \o "  ")], ",\n")
                  \o "\n" \o indent \o "}")
      [] OTHER -> "null"

\* A slip: the verdict line is printed before the result is looked at.
ReportStdout_Always(r) == << <<"U+2713 Valid pizza!">> >>

\* The lines of the branch result.isPizza (cli.ts 61-65).
ReportStdout(r) ==
    IF r.isPizza
    THEN << <<"U+2713 Valid pizza!">>, <<stringify(r.pizza, "")>> >>
    ELSE <<>>

\* The lines of the else branch (cli.ts 66-70).
ReportStderr(r) ==
    IF r.isPizza
    THEN <<>>
    ELSE << <<"U+2717 Invalid pizza:">>, r.errors >>

\* A slip: exit code 0 whatever the result.
ReportExitCode_Zero(r) == 0

ReportExitCode(r) == IF r.isPizza THEN 0 ELSE 1

\* A slip: no branch for ENOENT, so a missing file is reported as any other
\* error of reading.
CatchLines_NoEnoent(error, filePath) ==
    IF error.isError
    THEN IF error.name = "SyntaxError"
         THEN << <<"Error: Invalid JSON in file \"", filePath, "\".">>, <<error.message>> >>
         ELSE << <<"Error reading file \"", filePath, "\":">>, <<error.message>> >>
    ELSE << <<"Unknown error: ", error.message>> >>

\* The catch block (cli.ts 72-90): the lines written to standard error.
CatchLines(error, filePath) ==
    IF error.isError
    THEN IF error.code = "ENOENT"
         THEN << <<"Error: File \"", filePath, "\" not found.">> >>
         ELSE IF error.name = "SyntaxError"
              THEN << <<"Error: Invalid JSON in file \"", filePath, "\".">>, <<error.message>> >>
              ELSE << <<"Error reading file \"", filePath, "\":">>, <<error.message>> >>
    ELSE << <<"Unknown error: ", error.message>> >>

CliInit ==
    /\ argv \in ArgLists
    /\ fs \in [Paths -> FileStates]
    /\ input = JsUndefined
    /\ result = NoResult
    /\ prev = NoResult
    /\ pc = "main"
    /\ parsed = NoArgs
    /\ content = <<>>
    /\ thrown = <<>>
    /\ stdout = <<>>
    /\ stderr = <<>>
    /\ exits = <<>>

\* cli.ts 28-37: the arguments are parsed; the TypeError of an unknown option
\* is thrown outside the try block and ends the process with code 1.
ParseArgs ==
    /\ pc = "main"
    /\ parsed' = parseArgs(argv)
    /\ IF parseArgs(argv).ok
       THEN /\ pc' = "parsed"
            /\ UNCHANGED <<stderr, exits>>
       ELSE /\ stderr' = stderr \o UncaughtLines
            /\ exits' = Append(exits, 1)
            /\ pc' = "exited"
    /\ UNCHANGED <<input, result, prev, argv, fs, content, thrown, stdout>>

\* cli.ts 40-46
ShowHelp ==
    /\ pc = "parsed"
    /\ WantsHelp(parsed)
    /\ stdout' = stdout \o UsageLines
    /\ exits' = Append(exits, 0)
    /\ pc' = "exited"
    /\ UNCHANGED <<input, result, prev, argv, fs, parsed, content, thrown, stderr>>

\* cli.ts 49-53
ReadFile ==
    /\ pc = "parsed"
    /\ ~WantsHelp(parsed)
    /\ IF ReadError(fs[FilePath(parsed)], FilePath(parsed)) # <<>>
       THEN /\ thrown' = ReadError(fs[FilePath(parsed)], FilePath(parsed))
            /\ pc' = "catch"
            /\ UNCHANGED content
       ELSE /\ content' = <<fs[FilePath(parsed)]>>
            /\ pc' = "read"
            /\ UNCHANGED thrown
    /\ UNCHANGED <<input, result, prev, argv, fs, parsed, stdout, stderr, exits>>

\* cli.ts 56
ParseJson ==
    /\ pc = "read"
    /\ IF JsonParseError(content[1]) # <<>>
       THEN /\ thrown' = JsonParseError(content[1])
            /\ pc' = "catch"
            /\ UNCHANGED input
       ELSE /\ input' = content[1].doc
            /\ pc' = "json"
            /\ UNCHANGED thrown
    /\ UNCHANGED <<result, prev, argv, fs, parsed, content, stdout, stderr, exits>>

\* cli.ts 59
CallValidate ==
    /\ pc = "json"
    /\ result' = validatePizza(input)
    /\ pc' = "report"
    /\ UNCHANGED <<input, prev, argv, fs, parsed, content, thrown, stdout, stderr, exits>>

\* cli.ts 61-71
Report ==
    /\ pc = "report"
    /\ stdout' = stdout \o ReportStdout(result)
    /\ stderr' = stderr \o ReportStderr(result)
    /\ exits' = Append(exits, ReportExitCode(result))
    /\ pc' = "exited"
    /\ UNCHANGED <<input, result, prev, argv, fs, parsed, content, thrown>>

\* cli.ts 72-92
Catch ==
    /\ pc = "catch"
    /\ stderr' = stderr \o CatchLines(thrown[1], FilePath(parsed))
    /\ exits' = Append(exits, 1)
    /\ pc' = "exited"
    /\ UNCHANGED <<input, result, prev, argv, fs, parsed, content, thrown, stdout>>

CliNext ==
    ParseArgs \/ ShowHelp \/ ReadFile \/ ParseJson \/ CallValidate \/ Report \/ Catch

CliSpec == CliInit /\ [][CliNext]_vars

\* main is synchronous and runs to its end: a step that can be taken is taken.
CliFairSpec == CliSpec /\ WF_vars(CliNext)

(***************************************************************************)
(* Properties                                                              *)
(***************************************************************************)
Called == pc # "start"

FieldNames == <<"size", "crust", "isDeepDish", "toppings">>

\* The errors string holds the piece msg.
Contains(errors, msg) == \E i \in DOMAIN errors : errors[i] = msg

Occurrences(errors, msg) == Cardinality({i \in DOMAIN errors : errors[i] = msg})

\* The four rules of a pizza, read off the input.
SizeRule(in) ==
    LET v == Get(in, "size") IN v.t = "number" /\ ~v.nan /\ v.n > 0

CrustRule(in) ==
    LET v == Get(in, "crust") IN v.t = "string" /\ v.s \in {Str_stuffed, Str_normal}

IsDeepDishRule(in) == Get(in, "isDeepDish").t \in {"undefined", "boolean"}

ForbiddenNames == {INVALID_TOPPINGS[j] : j \in DOMAIN INVALID_TOPPINGS}

AllStrings(a) == \A i \in DOMAIN a : a[i].t = "string"

ToppingsRule(in) ==
    LET v == Get(in, "toppings")
    IN \/ v.t = "undefined"
       \/ /\ v.t = "array"
          /\ AllStrings(v.a)
          /\ \A i \in DOMAIN v.a : toLowerCase(v.a[i].s) \notin ForbiddenNames

AllRules(in) ==
    in.t = "object" /\ SizeRule(in) /\ CrustRule(in) /\ IsDeepDishRule(in) /\ ToppingsRule(in)

\* C1: validatePizza succeeds exactly when the four rules hold of the input
\* (size a number > 0, crust "stuffed" or "normal", isDeepDish absent or a
\* boolean, toppings absent or strings none of which lower-cases to a
\* forbidden name); every other input fails.
C1_SuccessIffRules == Called => (result.isPizza <=> AllRules(input))

\* A pizza with the topping "mushrooms", which only contains a forbidden name,
\* was accepted.
C1_Witness ==
    /\ pc = "validated"
    /\ result.isPizza
    /\ \E i \in DOMAIN Get(input, "toppings").a :
          Get(input, "toppings").a[i].s = Str_mushrooms

\* C2: on success the pizza is the input normalized: size, crust and toppings
\* as given (toppings in order and in their casing, no toppings key when none
\* was given), isDeepDish as given or false, and no other key.
C2_OutputIsNormalizedInput ==
    (Called /\ result.isPizza) =>
        LET p == result.pizza
        IN /\ Get(p, "size") = Get(input, "size")
           /\ Get(p, "crust") = Get(input, "crust")
           /\ Get(p, "isDeepDish") =
                 (IF "isDeepDish" \in Keys(input)
                  THEN Get(input, "isDeepDish")
                  ELSE JsBoolean(FALSE))
           /\ Get(p, "toppings") = Get(input, "toppings")
           /\ ("toppings" \in Keys(p)) <=> ("toppings" \in Keys(input))
           /\ Keys(p) \subseteq {"size", "crust", "isDeepDish", "toppings"}
           /\ Cardinality(Keys(p)) = Len(p.o)

\* An input with an unknown key, no isDeepDish and a capitalised topping was
\* accepted.
C2_Witness ==
    /\ pc = "validated"
    /\ result.isPizza
    /\ "extra" \in Keys(input)
    /\ "isDeepDish" \notin Keys(input)
    /\ Get(input, "toppings").t = "array"
    /\ Len(Get(input, "toppings").a) = 2
    /\ Get(input, "toppings").a[1].s = Str_mushrooms
    /\ Get(input, "toppings").a[2].s = Str_Bacon

\* C3: an input whose size is a number <= 0 fails, whatever its other
\* fields, and the errors hold "pizza size must be a positive number".
C3_NonPositiveSizeRejected ==
    (Called /\ input.t = "object"
       /\ Get(input, "size").t = "number" /\ ~Get(input, "size").nan
       /\ Get(input, "size").n <= 0) =>
        (~result.isPizza /\ Contains(result.errors, SizeMessage))

\* A size of zero, with the other fields in order, was refused.
C3_Witness ==
    /\ pc = "validated"
    /\ input.t = "object"
    /\ Get(input, "size") = JsNumber(0)
    /\ CrustRule(input) /\ IsDeepDishRule(input) /\ ToppingsRule(input)
    /\ ~result.isPizza

\* The messages of an errors string: its pieces between the "; " separators.
RECURSIVE SplitMessages(_)
SplitMessages(errors) ==
    IF ~Contains(errors, "; ")
    THEN <<errors>>
    ELSE LET i == CHOOSE k \in DOMAIN errors :
                    errors[k] = "; " /\ \A m \in 1..(k - 1) : errors[m] # "; "
         IN <<SubSeq(errors, 1, i - 1)>> \o SplitMessages(SubSeq(errors, i + 1, Len(errors)))

\* The field each message of an errors string starts with, message by message.
MessageFields(errors) ==
    LET ms == SplitMessages(errors) IN [i \in DOMAIN ms |-> ms[i][1]]

SizeIsNonPositiveNumber(in) ==
    LET v == Get(in, "size") IN v.t = "number" /\ ~v.nan /\ v.n <= 0

\* C4 as claimed: every violation of the size rule, a missing size and a size
\* that is not a number included, is reported with "pizza size must be a
\* positive number".
C4_EverySizeViolationHasSizeMessage ==
    (Called /\ input.t = "object" /\ ~SizeRule(input)) =>
        (~result.isPizza /\ Contains(result.errors, SizeMessage))

\* C4, amended: only a size that is a number <= 0 is reported with "pizza
\* size must be a positive number"; a missing size and a size that is not a
\* number are reported under the path size with another message, and the
\* errors then do not hold "pizza size must be a positive number".
C4_SizeMessageOnlyForNonPositive ==
    (Called /\ input.t = "object" /\ ~SizeRule(input)) =>
        /\ ~result.isPizza
        /\ SplitMessages(result.errors)[1][1] = "size"
        /\ SplitMessages(result.errors)[1][2] = ": "
        /\ Len(SplitMessages(result.errors)[1]) = 3
        /\ Contains(result.errors, SizeMessage) <=> SizeIsNonPositiveNumber(input)

\* The size "12", a string, was refused.
C4_Witness ==
    /\ pc = "validated"
    /\ input.t = "object"
    /\ Get(input, "size") = JsString(Str_12)
    /\ ~result.isPizza
    /\ ~Contains(result.errors, SizeMessage)

\* C5: an input whose crust is not exactly "stuffed" or "normal" (another
\* string, a case variant, not a string, missing) fails, and the errors hold
\* the crust message.
C5_BadCrustRejected ==
    (Called /\ input.t = "object" /\ ~CrustRule(input)) =>
        (~result.isPizza /\ Contains(result.errors, CrustMessage))

\* The crust "Normal" was refused where every other field was in order.
C5_Witness ==
    /\ pc = "validated"
    /\ Get(input, "crust") = JsString(Str_Normal)
    /\ SizeRule(input) /\ IsDeepDishRule(input) /\ ToppingsRule(input)
    /\ ~result.isPizza

HasForbiddenTopping(in) ==
    LET v == Get(in, "toppings")
    IN /\ v.t = "array"
       /\ AllStrings(v.a)
       /\ \E i \in DOMAIN v.a : toLowerCase(v.a[i].s) \in ForbiddenNames

\* C6: toppings that are all strings and hold a forbidden topping, in any
\* casing and at any position, fail, and the errors hold the message that
\* lists the whole forbidden set exactly once.
C6_ForbiddenToppingRejectedOnce ==
    (Called /\ input.t = "object" /\ HasForbiddenTopping(input)) =>
        (~result.isPizza /\ Occurrences(result.errors, ToppingsMessage) = 1)

\* Two forbidden toppings, one of them in capitals, were refused together.
C6_Witness ==
    /\ pc = "validated"
    /\ Get(input, "toppings").t = "array"
    /\ Len(Get(input, "toppings").a) = 2
    /\ Get(input, "toppings").a[1].s = Str_turkey
    /\ Get(input, "toppings").a[2].s = Str_SPINACH
    /\ ~result.isPizza

\* The fields whose rule the input violates, in declaration order.
ViolatedFields(in) ==
    (IF SizeRule(in) THEN <<>> ELSE <<"size">>)
    \o (IF CrustRule(in) THEN <<>> ELSE <<"crust">>)
    \o (IF IsDeepDishRule(in) THEN <<>> ELSE <<"isDeepDish">>)
    \o (IF ToppingsRule(in) THEN <<>> ELSE <<"toppings">>)

\* How many elements of the toppings array are not strings.
NonStringCount(in) ==
    LET v == Get(in, "toppings")
    IN IF v.t = "array" THEN Cardinality({i \in DOMAIN v.a : v.a[i].t # "string"}) ELSE 0

\* As ViolatedFields, with toppings once for each element that is not a string.
ViolatedFieldsPerElement(in) ==
    (IF SizeRule(in) THEN <<>> ELSE <<"size">>)
    \o (IF CrustRule(in) THEN <<>> ELSE <<"crust">>)
    \o (IF IsDeepDishRule(in) THEN <<>> ELSE <<"isDeepDish">>)
    \o (IF ToppingsRule(in)
        THEN <<>>
        ELSE IF NonStringCount(in) > 0
             THEN [i \in 1..NonStringCount(in) |-> "toppings"]
             ELSE <<"toppings">>)

\* C7 as claimed: the errors hold one message for each violated field, in the
\* order size, crust, isDeepDish, toppings, joined with "; ".
C7_OneMessagePerViolatedField ==
    (Called /\ input.t = "object" /\ ~result.isPizza) =>
        MessageFields(result.errors) = ViolatedFields(input)

\* C7, amended: the same, except that a toppings array with elements that
\* are not strings gets one message for each such element.
C7_MessagesInDeclarationOrder ==
    (Called /\ input.t = "object" /\ ~result.isPizza) =>
        MessageFields(result.errors) = ViolatedFieldsPerElement(input)

\* An input whose keys come in the order toppings, isDeepDish, crust, size
\* and that breaks all four rules got four messages.
C7_Witness ==
    /\ pc = "validated"
    /\ input.t = "object"
    /\ [i \in DOMAIN input.o |-> input.o[i].k] = <<"toppings", "isDeepDish", "crust", "size">>
    /\ ~result.isPizza
    /\ MessageFields(result.errors) = FieldNames

\* C8: validatePizza returns, for every input, exactly one of the two
\* variants: isPizza true with a pizza and no errors, or isPizza false with a
\* non-empty errors string and no pizza.
C8_ResultIsOneVariant ==
    Called =>
        \/ /\ DOMAIN result = {"isPizza", "pizza"}
           /\ result.isPizza = TRUE
           /\ result.pizza.t = "object"
        \/ /\ DOMAIN result = {"isPizza", "errors"}
           /\ result.isPizza = FALSE
           /\ Len(result.errors) > 0
           /\ \A i \in DOMAIN result.errors : result.errors[i] # ""

\* An array was passed and the failure variant came back.
C8_Witness ==
    /\ pc = "validated"
    /\ input.t = "array"
    /\ DOMAIN result = {"isPizza", "errors"}
    /\ Len(result.errors) = 1

\* C9: validating the pizza of a successful validation succeeds again and
\* returns an equal pizza.
C9_Idempotent ==
    pc = "revalidated" => (result.isPizza /\ result.pizza = prev.pizza)

\* A pizza with isDeepDish false and no toppings was validated again.
C9_Witness ==
    /\ pc = "revalidated"
    /\ prev.isPizza
    /\ Get(prev.pizza, "isDeepDish") = JsBoolean(FALSE)
    /\ "toppings" \notin Keys(prev.pizza)
    /\ input = prev.pizza

NotKeyed(in) == in.t \in {"string", "number", "null", "undefined"}

\* Message m starts with the path of a field (the field, then "." and an
\* index for an element of toppings), then ": ", then one more piece.
HasFieldPath(m) ==
    /\ Len(m) \in {3, 5}
    /\ \E i \in DOMAIN FieldNames : FieldNames[i] = m[1]
    /\ m[Len(m) - 1] = ": "
    /\ Len(m) = 5 => (m[1] = "toppings" /\ m[2] = ".")

\* C10: an input that is no keyed structure (a string, a number, null,
\* undefined) fails with non-empty errors that carry no field path, whereas
\* every message for a violation of a field's rule starts with that field's
\* path and ": ".
C10_StructuralErrorHasNoPath ==
    /\ (Called /\ NotKeyed(input)) =>
          /\ ~result.isPizza
          /\ Len(result.errors) = 1
          /\ result.errors[1] \notin {"", ": ", "; "}
          /\ \A i \in DOMAIN FieldNames : result.errors[1] # FieldNames[i]
    /\ (Called /\ input.t = "object" /\ ~result.isPizza) =>
          \A i \in DOMAIN SplitMessages(result.errors) :
             HasFieldPath(SplitMessages(result.errors)[i])

\* null was refused with a single message that has no path.
C10_Witness ==
    /\ pc = "validated"
    /\ input.t = "null"
    /\ ~result.isPizza
    /\ Len(SplitMessages(result.errors)) = 1
    /\ ~Contains(result.errors, ": ")

\* The toppings are given and are no array of strings.
ToppingsWrongType(in) ==
    LET v == Get(in, "toppings")
    IN v.t \notin {"undefined", "array"} \/ NonStringCount(in) > 0

\* Message m reports a type violation of toppings: of the whole value, or of
\* the element at the index it names, which is no string.
IsToppingsTypeMessage(m, in) ==
    LET v == Get(in, "toppings")
    IN IF v.t # "array"
       THEN m = <<"toppings", ": ", InvalidTypeMessage("array", v)>>
       ELSE \E i \in DOMAIN v.a :
               /\ v.a[i].t # "string"
               /\ m = <<"toppings", ".", ToString(i - 1), ": ",
                        InvalidTypeMessage("string", v.a[i])>>

\* C14: when toppings is no array, or an array with an element that is no
\* string, the errors hold only type-violation messages for toppings (with
\* the index in the path of a bad element) and never the forbidden-toppings
\* message, even with a forbidden topping among the elements; the other
\* fields are still checked.
C14_WrongTypeSuppressesForbiddenCheck ==
    (Called /\ input.t = "object" /\ ToppingsWrongType(input)) =>
        /\ ~result.isPizza
        /\ ~Contains(result.errors, ToppingsMessage)
        /\ \A i \in DOMAIN SplitMessages(result.errors) :
              SplitMessages(result.errors)[i][1] = "toppings" =>
                 IsToppingsTypeMessage(SplitMessages(result.errors)[i], input)
        /\ MessageFields(result.errors) = ViolatedFieldsPerElement(input)

\* The toppings [123, "SPINACH"] of a pizza with a bad crust were refused.
C14_Witness ==
    /\ pc = "validated"
    /\ input.t = "object"
    /\ Get(input, "toppings") = JsArray(<<JsNumber(123), JsString(Str_SPINACH)>>)
    /\ ~CrustRule(input)
    /\ ~result.isPizza
    /\ Contains(result.errors, CrustMessage)

(***************************************************************************)
(* Properties of the command line                                          *)
(***************************************************************************)
Exited == pc = "exited"

HelpGiven(args) == \E i \in DOMAIN args : args[i] = "--help" \/ args[i] = "-h"

NoPositional(args) == \A i \in DOMAIN args : args[i] \notin Paths

UnknownOptionGiven(args) == \E i \in DOMAIN args : args[i] = "--verbose"

\* The first argument that is a path.
FirstPath(args) ==
    args[CHOOSE i \in DOMAIN args :
            args[i] \in Paths /\ \A j \in 1..(i - 1) : args[j] \notin Paths]

HelpShown == stdout = UsageLines

ValidatedOk == "isPizza" \in DOMAIN result /\ result.isPizza

ValidationFailed == "isPizza" \in DOMAIN result /\ ~result.isPizza

\* The run exited once, with 0 exactly when help was shown or the file was
\* read, parsed and found valid, and with 1 after a failed validation and
\* after a failure to read or to parse.
ExitCodeFollowsOutcome ==
    Exited =>
        /\ Len(exits) = 1
        /\ exits[1] \in {0, 1}
        /\ exits[1] = 0 <=> (HelpShown \/ ValidatedOk)
        /\ ValidationFailed => exits[1] = 1
        /\ thrown # <<>> => exits[1] = 1
        /\ ~UnknownOptionGiven(argv) =>
              (HelpShown <=> (HelpGiven(argv) \/ NoPositional(argv)))
        /\ ValidatedOk =>
              /\ fs[FirstPath(argv)].kind = "json"
              /\ input = fs[FirstPath(argv)].doc
              /\ AllRules(input)

ReadsFile(args) == ~UnknownOptionGiven(args) /\ ~HelpGiven(args) /\ ~NoPositional(args)

\* The lines the cause of the failure calls for, for the file at path.
FailureLines(kind, path, message) ==
    CASE kind = "ENOENT" -> << <<"Error: File \"", path, "\" not found.">> >>
      [] kind = "badjson" -> << <<"Error: Invalid JSON in file \"", path, "\".">>, <<message>> >>
      [] kind = "EACCES" -> << <<"Error reading file \"", path, "\":">>, <<message>> >>

\* C12: a failure to read or to parse the file is reported with the one
\* message of its cause (not found; invalid JSON and the parser's message;
\* error reading and the error's message), a thrown value that is no Error
\* with "Unknown error: " and its text; the run exits with 1 and the
\* validator is not called.
C12_FailureClassifiedByCause ==
    /\ (Exited /\ ReadsFile(argv) /\ fs[FirstPath(argv)].kind # "json") =>
          /\ Len(thrown) = 1
          /\ stderr = FailureLines(fs[FirstPath(argv)].kind, FirstPath(argv),
                                    thrown[1].message)
          /\ stdout = <<>>
          /\ exits = <<1>>
          /\ result = NoResult
    /\ (Exited /\ thrown # <<>>) =>
          (ReadsFile(argv) /\ fs[FirstPath(argv)].kind # "json" /\ result = NoResult)
    /\ \A path \in Paths :
          CatchLines(NonError("boom"), path) = << <<"Unknown error: ", "boom">> >>

\* The second of two paths is a good file, the first is missing, and the
\* run reported the first as not found.
C12_Witness ==
    /\ Exited
    /\ argv = <<"other.json", "pizza.json">>
    /\ fs["other.json"].kind = "ENOENT"
    /\ fs["pizza.json"].kind = "json"
    /\ stderr = << <<"Error: File \"", "other.json", "\" not found.">> >>

\* C13: invoked with no positional argument, or with --help or -h (a path
\* given or not), the program prints the usage and the options to standard
\* output, exits with 0, and neither reads the file nor calls the validator.
C13_HelpWithoutFileOrOnRequest ==
    (Exited /\ (NoPositional(argv) \/ HelpGiven(argv))) =>
        /\ stdout = UsageLines
        /\ stderr = <<>>
        /\ exits = <<0>>
        /\ content = <<>>
        /\ thrown = <<>>
        /\ result = NoResult

\* C15: an invocation writes to one stream only, the one of its exit code:
\* standard output alone when it exits with 0, standard error alone when it
\* exits with 1; the verdict line of a valid pizza and the printed pizza
\* never appear for an input that fails validation.
C15_OneStreamPerExitCode ==
    /\ stdout = <<>> \/ stderr = <<>>
    /\ Exited =>
          /\ exits[1] = 0 => (stdout # <<>> /\ stderr = <<>>)
          /\ exits[1] = 1 => (stderr # <<>> /\ stdout = <<>>)
    /\ ValidationFailed =>
          \A i \in DOMAIN stdout : stdout[i] # <<"U+2713 Valid pizza!">>
    /\ (Exited /\ ValidatedOk) =>
          stdout = << <<"U+2713 Valid pizza!">>, <<stringify(result.pizza, "")>> >>
    /\ (Exited /\ ValidationFailed) =>
          stderr = << <<"U+2717 Invalid pizza:">>, result.errors >>

\* The README's invalid pizza was reported on standard error alone.
C15_Witness ==
    /\ Exited
    /\ ValidationFailed
    /\ Contains(result.errors, ToppingsMessage)
    /\ stdout = <<>>
    /\ Len(stderr) = 2
    /\ exits = <<1>>

====
